---- MODULE Spec2Model ----
(***************************************************************************)
(* Local execution of one pipeline DAG: kfp/local/dag_orchestrator.py.     *)
(*                                                                         *)
(* run_dag is modelled as a state machine over the orchestrator's locals   *)
(* (sorted_tasks, task_name, task_arguments), the IOStore it fills and its *)
(* outcome (a returned tuple or a raised exception).  The helpers          *)
(* join_user_inputs_and_defaults, make_task_arguments, validate_executor   *)
(* and get_dag_outputs are operators computed as the code computes them.   *)
(* Protobuf maps are sequences of <name, spec> entries in iteration order. *)
(***************************************************************************)
EXTENDS Integers, Sequences, FiniteSets, TLC

----------------------------------------------------------------------------
(* Bounds of the model.                                                    *)

\* number of tasks in dag_spec.tasks
MaxTasks == 2
\* largest number carried by a parameter value or an artifact handle
MaxVal == 1

TaskNames == <<"A", "B", "C", "D">>
Tasks == {TaskNames[i] : i \in 1..MaxTasks}

\* names of the DAG's own inputs, of a task's inputs, of a task's outputs
DagInputNames == {"a", "b"}
TaskInputNames == {"y", "z"}
OutputKeys == {"x", "w"}

None == "None"

----------------------------------------------------------------------------
(* Values.  A protobuf literal (struct_pb2.Value) and a native Python      *)
(* value are different representations; pb2_value_to_python converts.      *)

Pb2Number(n) == [kind |-> "number_value", val |-> n]
Pb2Null == [kind |-> "null_value", val |-> 0]
Pb2Values == {Pb2Number(n) : n \in 0..MaxVal} \cup {Pb2Null}

PyNumber(n) == [type |-> "float", val |-> n]
PyNone == [type |-> "NoneType", val |-> 0]
Artifact(n) == [type |-> "Artifact", val |-> n]
PyValues == {PyNumber(n) : n \in 0..MaxVal} \cup {PyNone}
            \cup {Artifact(n) : n \in 0..MaxVal}

pb2_value_to_python(value) ==
    IF value.kind = "number_value" THEN PyNumber(value.val) ELSE PyNone

----------------------------------------------------------------------------
(* Python dicts: functions on a finite key set.                            *)

EmptyDict == [k \in {} |-> PyNone]

DictSet(d, key, value) ==
    [k \in DOMAIN d \cup {key} |-> IF k = key THEN value ELSE d[k]]

\* {**d1, **d2}: the keys of both, d2 winning on a shared key
DictMerge(d1, d2) ==
    [k \in DOMAIN d1 \cup DOMAIN d2 |-> IF k \in DOMAIN d2 THEN d2[k] ELSE d1[k]]

\* every dict with keys among `keys` and values among `values`
Dicts(keys, values) == UNION {[ks -> values] : ks \in SUBSET keys}

----------------------------------------------------------------------------
(* Exceptions.  NoError is the value of `error` while nothing was raised.  *)

Error(type, msg, arg) == [type |-> type, msg |-> msg, arg |-> arg]
NoError == Error(None, None, None)

----------------------------------------------------------------------------
(* io.IOStore: parent inputs keyed by input name, task outputs keyed by    *)
(* (task name, output key).  Both key spaces live in one function.         *)

ParentKey(name) == [space |-> "parent_input", task |-> None, key |-> name]
TaskKey(task, key) == [space |-> "task_output", task |-> task, key |-> key]

EmptyStore == [k \in {} |-> PyNone]

put_parent_input(store, key, value) == DictSet(store, ParentKey(key), value)

put_task_output(store, task, key, value) ==
    DictSet(store, TaskKey(task, key), value)

\* a lookup returns the value, or raises when the key was never put
Found(value) == [raised |-> FALSE, value |-> value, error |-> NoError]
NotFound(e) == [raised |-> TRUE, value |-> PyNone, error |-> e]

get_parent_input(store, key) ==
    IF ParentKey(key) \in DOMAIN store
    THEN Found(store[ParentKey(key)])
    ELSE NotFound(Error("MissingParentInput", "parent input not found", key))

get_task_output(store, task, key) ==
    IF TaskKey(task, key) \in DOMAIN store
    THEN Found(store[TaskKey(task, key)])
    ELSE NotFound(Error("MissingUpstreamOutput", "task output not found", key))

----------------------------------------------------------------------------
(* join_user_inputs_and_defaults.  dag_inputs_spec.parameters is a sequence *)
(* of [name, default_value] entries.  The result records both the returned *)
(* dict and the caller's dict as it is after the call.                     *)

InputParameter(name, default_value) ==
    [name |-> name, default_value |-> default_value]

\* a merge in which a declared default replaces the user's value
RECURSIVE fill_defaults_over_user(_, _)
fill_defaults_over_user(parameters, copied_dag_arguments) ==
    IF parameters = <<>> THEN copied_dag_arguments
    ELSE fill_defaults_over_user(
             Tail(parameters),
             DictSet(copied_dag_arguments, Head(parameters).name,
                     pb2_value_to_python(Head(parameters).default_value)))

RECURSIVE fill_defaults(_, _)
fill_defaults(parameters, copied_dag_arguments) ==
    IF parameters = <<>> THEN copied_dag_arguments
    ELSE LET input_name == Head(parameters).name
             input_spec == Head(parameters)
         IN  fill_defaults(
                 Tail(parameters),
                 IF input_name \notin DOMAIN copied_dag_arguments
                 THEN DictSet(copied_dag_arguments, input_name,
                              pb2_value_to_python(input_spec.default_value))
                 ELSE copied_dag_arguments)

\* the defaults filled into the caller's dict itself, no copy taken
join_in_place(dag_arguments, dag_inputs_spec) ==
    [ret |-> fill_defaults(dag_inputs_spec, dag_arguments),
     dag_arguments |-> fill_defaults(dag_inputs_spec, dag_arguments)]

join_user_inputs_and_defaults(dag_arguments, dag_inputs_spec) ==
    [ret |-> fill_defaults(dag_inputs_spec, dag_arguments),
     dag_arguments |-> dag_arguments]

----------------------------------------------------------------------------
(* make_task_arguments.  A TaskInputsSpec holds two maps, parameters and   *)
(* artifacts; each entry is [name, spec], spec.kind being the field that   *)
(* HasField finds set (None when no field is set).                         *)

InputSpec(kind, value, constant, producer_task, output_key, component_input) ==
    [kind |-> kind, value |-> value, constant |-> constant,
     producer_task |-> producer_task, output_key |-> output_key,
     component_input |-> component_input]

RuntimeConstant(c) == InputSpec("runtime_value", "constant", c, None, None, None)
RuntimeParameter ==
    InputSpec("runtime_value", "runtime_parameter", Pb2Null, None, None, None)
TaskOutputParameter(task, key) ==
    InputSpec("task_output_parameter", None, Pb2Null, task, key, None)
ComponentInputParameter(name) ==
    InputSpec("component_input_parameter", None, Pb2Null, None, None, name)
TaskFinalStatus(task) ==
    InputSpec("task_final_status", None, Pb2Null, task, None, None)
TaskOutputArtifact(task, key) ==
    InputSpec("task_output_artifact", None, Pb2Null, task, key, None)
ComponentInputArtifact(name) ==
    InputSpec("component_input_artifact", None, Pb2Null, None, None, name)
NoSource == InputSpec(None, None, Pb2Null, None, None, None)

Input(name, spec) == [name |-> name, spec |-> spec]
TaskInputsSpec(parameters, artifacts) ==
    [parameters |-> parameters, artifacts |-> artifacts]

\* the running state of one call: the dict built so far, the store keys
\* looked up so far, the exception raised (if any), the store afterwards
Building(task_arguments, lookups, io_store) ==
    [raised |-> FALSE, error |-> NoError, task_arguments |-> task_arguments,
     lookups |-> lookups, io_store |-> io_store]
Raised(acc, e) == [acc EXCEPT !.raised = TRUE, !.error = e]

\* a lookup that also files the value read in the store, under the name of
\* the input
AssignLookupStoringArgument(acc, input_name, key, got) ==
    IF got.raised
    THEN Raised([acc EXCEPT !.lookups = Append(@, key)], got.error)
    ELSE [acc EXCEPT !.lookups = Append(@, key),
                     !.task_arguments = DictSet(@, input_name, got.value),
                     !.io_store = put_parent_input(@, input_name, got.value)]

\* task_arguments[input_name] = <a store lookup>
AssignLookup(acc, input_name, key, got) ==
    IF got.raised
    THEN Raised([acc EXCEPT !.lookups = Append(@, key)], got.error)
    ELSE [acc EXCEPT !.lookups = Append(@, key),
                     !.task_arguments = DictSet(@, input_name, got.value)]

\* a resolver that passes a constant on as the protobuf literal it is
ResolveParameterRawConstant(acc, input_name, input_spec) ==
    IF input_spec.kind = "runtime_value"
    THEN IF input_spec.value /= "constant"
         THEN Raised(acc, Error("ValueError", "Expected constant.", input_name))
         ELSE [acc EXCEPT !.task_arguments =
                   DictSet(@, input_name, input_spec.constant)]
    ELSE IF input_spec.kind = "task_output_parameter"
    THEN AssignLookup(acc, input_name,
             TaskKey(input_spec.producer_task, input_spec.output_key),
             get_task_output(acc.io_store, input_spec.producer_task,
                             input_spec.output_key))
    ELSE IF input_spec.kind = "component_input_parameter"
    THEN AssignLookup(acc, input_name, ParentKey(input_spec.component_input),
             get_parent_input(acc.io_store, input_spec.component_input))
    ELSE IF input_spec.kind = "task_final_status"
    THEN Raised(acc, Error("NotImplementedError",
                           "'dsl.ExitHandler' is not yet support", input_name))
    ELSE Raised(acc, Error("ValueError", "Missing input for parameter", input_name))

\* a resolver that skips a parameter whose source it does not recognise
ResolveParameterSkippingUnknown(acc, input_name, input_spec) ==
    IF input_spec.kind = "runtime_value"
    THEN IF input_spec.value /= "constant"
         THEN Raised(acc, Error("ValueError", "Expected constant.", input_name))
         ELSE [acc EXCEPT !.task_arguments =
                   DictSet(@, input_name, pb2_value_to_python(input_spec.constant))]
    ELSE IF input_spec.kind = "task_output_parameter"
    THEN AssignLookup(acc, input_name,
             TaskKey(input_spec.producer_task, input_spec.output_key),
             get_task_output(acc.io_store, input_spec.producer_task,
                             input_spec.output_key))
    ELSE IF input_spec.kind = "component_input_parameter"
    THEN AssignLookup(acc, input_name, ParentKey(input_spec.component_input),
             get_parent_input(acc.io_store, input_spec.component_input))
    ELSE acc

ResolveParameter(acc, input_name, input_spec) ==
    IF input_spec.kind = "runtime_value"
    THEN IF input_spec.value /= "constant"
         THEN Raised(acc, Error("ValueError", "Expected constant.", input_name))
         ELSE [acc EXCEPT !.task_arguments =
                   DictSet(@, input_name, pb2_value_to_python(input_spec.constant))]
    ELSE IF input_spec.kind = "task_output_parameter"
    THEN AssignLookup(acc, input_name,
             TaskKey(input_spec.producer_task, input_spec.output_key),
             get_task_output(acc.io_store, input_spec.producer_task,
                             input_spec.output_key))
    ELSE IF input_spec.kind = "component_input_parameter"
    THEN AssignLookup(acc, input_name, ParentKey(input_spec.component_input),
             get_parent_input(acc.io_store, input_spec.component_input))
    ELSE IF input_spec.kind = "task_final_status"
    THEN Raised(acc, Error("NotImplementedError",
                           "'dsl.ExitHandler' is not yet support", input_name))
    ELSE Raised(acc, Error("ValueError", "Missing input for parameter", input_name))

\* a resolver that skips an artifact whose source it does not recognise
ResolveArtifactSkippingUnknown(acc, input_name, input_spec) ==
    IF input_spec.kind = "task_output_artifact"
    THEN AssignLookup(acc, input_name,
             TaskKey(input_spec.producer_task, input_spec.output_key),
             get_task_output(acc.io_store, input_spec.producer_task,
                             input_spec.output_key))
    ELSE IF input_spec.kind = "component_input_artifact"
    THEN AssignLookup(acc, input_name, ParentKey(input_spec.component_input),
             get_parent_input(acc.io_store, input_spec.component_input))
    ELSE acc

ResolveArtifact(acc, input_name, input_spec) ==
    IF input_spec.kind = "task_output_artifact"
    THEN AssignLookup(acc, input_name,
             TaskKey(input_spec.producer_task, input_spec.output_key),
             get_task_output(acc.io_store, input_spec.producer_task,
                             input_spec.output_key))
    ELSE IF input_spec.kind = "component_input_artifact"
    THEN AssignLookup(acc, input_name, ParentKey(input_spec.component_input),
             get_parent_input(acc.io_store, input_spec.component_input))
    ELSE Raised(acc, Error("ValueError", "Missing input for artifact", input_name))

RECURSIVE ResolveParameters(_, _)
ResolveParameters(parameters, acc) ==
    IF parameters = <<>> \/ acc.raised THEN acc
    ELSE ResolveParameters(Tail(parameters),
             ResolveParameter(acc, Head(parameters).name, Head(parameters).spec))

RECURSIVE ResolveArtifacts(_, _)
ResolveArtifacts(artifacts, acc) ==
    IF artifacts = <<>> \/ acc.raised THEN acc
    ELSE ResolveArtifacts(Tail(artifacts),
             ResolveArtifact(acc, Head(artifacts).name, Head(artifacts).spec))

make_task_arguments(task_inputs_spec, io_store) ==
    ResolveArtifacts(task_inputs_spec.artifacts,
        ResolveParameters(task_inputs_spec.parameters,
            Building(EmptyDict, <<>>, io_store)))

----------------------------------------------------------------------------
(* validate_executor: executor is the field WhichOneof('spec') names.      *)

\* a validation that rejects importers only
validate_executor_importer_only(executor) ==
    IF executor = "importer"
    THEN Error("NotImplementedError", "Importer is not yet supported", None)
    ELSE NoError

validate_executor(executor) ==
    IF executor = "importer"
    THEN Error("NotImplementedError", "Importer is not yet supported", None)
    ELSE IF executor /= "container"
    THEN Error("ValueError", "Got unknown spec in ExecutorSpec", None)
    ELSE NoError

----------------------------------------------------------------------------
(* get_dag_outputs.  A DagOutputsSpec holds two maps: parameters, each     *)
(* entry [name, spec] with spec.kind the field WhichOneof('kind') names,   *)
(* and artifacts, each entry [name, artifact_selectors].                   *)

ParameterSelector(kind, producer_subtask, output_parameter_key) ==
    [kind |-> kind, producer_subtask |-> producer_subtask,
     output_parameter_key |-> output_parameter_key]
ValueFromParameter(task, key) == ParameterSelector("value_from_parameter", task, key)
ValueFromOneof == ParameterSelector("value_from_oneof", None, None)
NoSelectorKind == ParameterSelector(None, None, None)

ArtifactSelector(producer_subtask, output_artifact_key) ==
    [producer_subtask |-> producer_subtask,
     output_artifact_key |-> output_artifact_key]

OutputParameter(name, spec) == [name |-> name, spec |-> spec]
OutputArtifact(name, artifact_selectors) ==
    [name |-> name, artifact_selectors |-> artifact_selectors]
DagOutputsSpec(parameters, artifacts) ==
    [parameters |-> parameters, artifacts |-> artifacts]

Collecting(outputs, io_store) ==
    [raised |-> FALSE, error |-> NoError, outputs |-> outputs,
     io_store |-> io_store]

\* outputs[root_output_key] = io_store.get_task_output(task, key)
AssignOutput(acc, root_output_key, got) ==
    IF got.raised THEN Raised(acc, got.error)
    ELSE [acc EXCEPT !.outputs = DictSet(@, root_output_key, got.value)]

RECURSIVE CollectParameters(_, _)
CollectParameters(parameters, acc) ==
    IF parameters = <<>> \/ acc.raised THEN acc
    ELSE LET root_output_key == Head(parameters).name
             parameter_selector_spec == Head(parameters).spec
             kind == parameter_selector_spec.kind
         IN  CollectParameters(Tail(parameters),
                 IF kind = "value_from_parameter"
                 THEN AssignOutput(acc, root_output_key,
                          get_task_output(acc.io_store,
                              parameter_selector_spec.producer_subtask,
                              parameter_selector_spec.output_parameter_key))
                 ELSE IF kind = "value_from_oneof"
                 THEN Raised(acc, Error("NotImplementedError",
                          "'dsl.OneOf' is not yet supported", root_output_key))
                 ELSE Raised(acc, Error("ValueError",
                          "Got unknown 'parameter_selector_spec' kind",
                          root_output_key)))

get_dag_output_parameters(dag_outputs_spec, io_store) ==
    CollectParameters(dag_outputs_spec.parameters, Collecting(EmptyDict, io_store))

\* a loop that takes the first selector of a list of several
RECURSIVE CollectArtifactsTakingFirst(_, _)
CollectArtifactsTakingFirst(artifacts, acc) ==
    IF artifacts = <<>> \/ acc.raised THEN acc
    ELSE LET root_output_key == Head(artifacts).name
             artifact_selector_spec == Head(artifacts)
             len_artifact_selectors == Len(artifact_selector_spec.artifact_selectors)
         IN  CollectArtifactsTakingFirst(Tail(artifacts),
                 IF len_artifact_selectors < 1
                 THEN Raised(acc, Error("ValueError",
                          "Expected 1 artifact in ArtifactSelectorSpec",
                          root_output_key))
                 ELSE LET artifact_selector ==
                              artifact_selector_spec.artifact_selectors[1]
                      IN  AssignOutput(acc, root_output_key,
                              get_task_output(acc.io_store,
                                  artifact_selector.producer_subtask,
                                  artifact_selector.output_artifact_key)))

RECURSIVE CollectArtifacts(_, _)
CollectArtifacts(artifacts, acc) ==
    IF artifacts = <<>> \/ acc.raised THEN acc
    ELSE LET root_output_key == Head(artifacts).name
             artifact_selector_spec == Head(artifacts)
             len_artifact_selectors == Len(artifact_selector_spec.artifact_selectors)
         IN  CollectArtifacts(Tail(artifacts),
                 IF len_artifact_selectors /= 1
                 THEN Raised(acc, Error("ValueError",
                          "Expected 1 artifact in ArtifactSelectorSpec",
                          root_output_key))
                 ELSE LET artifact_selector ==
                              artifact_selector_spec.artifact_selectors[1]
                      IN  AssignOutput(acc, root_output_key,
                              get_task_output(acc.io_store,
                                  artifact_selector.producer_subtask,
                                  artifact_selector.output_artifact_key)))

get_dag_output_artifacts(dag_outputs_spec, io_store) ==
    CollectArtifacts(dag_outputs_spec.artifacts, Collecting(EmptyDict, io_store))

\* return {**output_artifacts, **output_params}
get_dag_outputs_parameters_last(dag_outputs_spec, io_store) ==
    LET output_params == get_dag_output_parameters(dag_outputs_spec, io_store)
    IN  IF output_params.raised THEN output_params
        ELSE LET output_artifacts ==
                     get_dag_output_artifacts(dag_outputs_spec,
                                              output_params.io_store)
             IN  IF output_artifacts.raised THEN output_artifacts
                 ELSE Collecting(DictMerge(output_artifacts.outputs,
                                           output_params.outputs),
                                 output_artifacts.io_store)

get_dag_outputs(dag_outputs_spec, io_store) ==
    LET output_params == get_dag_output_parameters(dag_outputs_spec, io_store)
    IN  IF output_params.raised THEN output_params
        ELSE LET output_artifacts ==
                     get_dag_output_artifacts(dag_outputs_spec,
                                              output_params.io_store)
             IN  IF output_artifacts.raised THEN output_artifacts
                 ELSE Collecting(DictMerge(output_params.outputs,
                                           output_artifacts.outputs),
                                 output_artifacts.io_store)

----------------------------------------------------------------------------
(* Inputs of one run.                                                      *)

\* every ordering of the elements of S, as a sequence
Orderings(S) ==
    {seq \in [1..Cardinality(S) -> S] : \A i, j \in DOMAIN seq :
                                            i /= j => seq[i] /= seq[j]}

\* the arguments a user passes to the pipeline and the DAG's declared inputs
RunDagArguments == Dicts({"a"}, {PyNumber(MaxVal)})
RunDagInputsSpecs ==
    {<<>>,
     <<InputParameter("a", Pb2Number(0))>>,
     <<InputParameter("b", Pb2Null), InputParameter("a", Pb2Number(0))>>}

\* the sources a task's parameter input may name, and an artifact input
ParameterSpecs ==
    {RuntimeConstant(c) : c \in Pb2Values} \cup {RuntimeParameter}
    \cup {TaskOutputParameter(t, k) : t \in Tasks, k \in OutputKeys}
    \cup {ComponentInputParameter(n) : n \in DagInputNames}
    \cup {TaskFinalStatus(None), NoSource}
ArtifactSpecs ==
    {TaskOutputArtifact(t, k) : t \in Tasks, k \in OutputKeys}
    \cup {ComponentInputArtifact(n) : n \in DagInputNames}
    \cup {NoSource, RuntimeConstant(Pb2Null), TaskFinalStatus(None)}

\* dag_spec.tasks[task_name] with the component and executor it refers to
TaskSpec(implementation, executor, inputs) ==
    [implementation |-> implementation, executor |-> executor, inputs |-> inputs]

Implementations == {"executor_label", "dag", None}
ExecutorKinds == {"container", "importer", None}

\* a task of the DAG: a container component with one parameter input "y" or
\* one artifact input "z" from any source, with no input, or with both from
\* a few sources; or an unsupported component or executor with a few inputs
BothTaskInputs ==
    {TaskInputsSpec(<<Input("y", p)>>, <<Input("z", a)>>) :
        p \in {RuntimeConstant(Pb2Number(MaxVal)), ComponentInputParameter("a"),
               NoSource},
        a \in {TaskOutputArtifact(t, "x") : t \in Tasks}
              \cup {ComponentInputArtifact("b")}}
RunTaskInputs ==
    {TaskInputsSpec(<<>>, <<>>)}
    \cup {TaskInputsSpec(<<Input("y", p)>>, <<>>) : p \in ParameterSpecs}
    \cup {TaskInputsSpec(<<>>, <<Input("z", a)>>) : a \in ArtifactSpecs}
    \cup BothTaskInputs
FewTaskInputs ==
    {TaskInputsSpec(<<>>, <<>>),
     TaskInputsSpec(<<Input("y", RuntimeConstant(Pb2Number(0)))>>, <<>>),
     TaskInputsSpec(<<Input("y", NoSource)>>, <<>>),
     TaskInputsSpec(<<>>, <<Input("z", ComponentInputArtifact("a"))>>)}
TaskSpecs ==
    {TaskSpec("executor_label", "container", inputs) : inputs \in RunTaskInputs}
    \cup {TaskSpec(i, e, inputs) :
             i \in Implementations, e \in ExecutorKinds, inputs \in FewTaskInputs}

\* the DAG's declared outputs: at most one parameter output "out" and at most
\* one artifact output "art"
ParameterSelectors ==
    {ValueFromParameter(t, k) : t \in Tasks, k \in OutputKeys}
    \cup {ValueFromOneof, NoSelectorKind}
ArtifactSelectorLists ==
    {<<ArtifactSelector(t, k)>> : t \in Tasks, k \in OutputKeys}
    \cup {<<>>} \cup {<<ArtifactSelector(t, "x"), ArtifactSelector(t, "w")>> : t \in Tasks}
RunDagOutputsSpecs ==
    {DagOutputsSpec(ps, as) :
        ps \in {<<>>} \cup {<<OutputParameter("out", sel)>> : sel \in ParameterSelectors},
        as \in {<<>>} \cup {<<OutputArtifact("art", sels)>> :
                                sels \in ArtifactSelectorLists}}

\* what the runner may hand back for one task: output "x" takes one of two
\* values, output "w" one
Statuses == {"SUCCESS", "FAILURE", "UNKNOWN"}
RunnerOutputs ==
    {outputs \in Dicts(OutputKeys, {PyNumber(0), Artifact(MaxVal)}) :
        "w" \in DOMAIN outputs => outputs["w"] = PyNumber(0)}

----------------------------------------------------------------------------
(* run_dag.                                                                *)

VARIABLES
    dag_arguments,                \* the caller's dict of user arguments
    dag_inputs_spec,              \* dag_component_spec.input_definitions.parameters
    dag_arguments_with_defaults,  \* local of run_dag
    io_store,                     \* the IOStore of this run
    sorted_tasks,                 \* local: the stack of task names left
    task_name,                    \* local: the task of the current iteration
    task_spec,                    \* local: that task's entry, component, executor
    task_arguments,               \* local: the arguments passed to the runner
    pc,                           \* where run_dag is
    result,                       \* the tuple run_dag returned
    error,                        \* the exception run_dag raised
    topo_order,                   \* history: what topological_sort_tasks returned
    dispatched,                   \* history: the tasks handed to the runner, in order
    reported,                     \* history: task -> status the runner reported
    returned_outputs,             \* history: task -> outputs the runner returned
    put_count,                    \* history: store key -> number of puts
    lookups,                      \* history: store keys read for the task in hand
    dag_outputs_spec,             \* the DagOutputsSpec handed to get_dag_outputs
    dag_outputs                   \* what get_dag_outputs returned or raised

vars == <<dag_arguments, dag_inputs_spec, dag_arguments_with_defaults, io_store,
          sorted_tasks, task_name, task_spec, task_arguments, pc, result, error,
          topo_order, dispatched, reported, returned_outputs, put_count,
          lookups, dag_outputs_spec, dag_outputs>>

NoTaskSpec == TaskSpec("unset", "unset", TaskInputsSpec(<<>>, <<>>))
NoResult == [status |-> None, task |-> None]
NoOutputsSpec == DagOutputsSpec(<<>>, <<>>)
NoOutputs == [called |-> FALSE, raised |-> FALSE, error |-> NoError,
              outputs |-> EmptyDict]
Result(status, task) == [status |-> status, task |-> task]

\* a store together with the number of puts each key has received
Counted(st, key, store) ==
    [io_store |-> store,
     put_count |-> DictSet(st.put_count, key,
                           IF key \in DOMAIN st.put_count
                           THEN st.put_count[key] + 1 ELSE 1)]

\* lines 61-62: for k, v in dag_arguments_with_defaults.items(): put_parent_input
RECURSIVE PutParentInputs(_, _)
PutParentInputs(st, items) ==
    IF DOMAIN items = {} THEN st
    ELSE LET k == CHOOSE x \in DOMAIN items : TRUE
         IN  PutParentInputs(
                 Counted(st, ParentKey(k),
                         put_parent_input(st.io_store, k, items[k])),
                 [x \in DOMAIN items \ {k} |-> items[x]])

\* a loop that stops after its first put
PutOneTaskOutput(st, task, outputs) ==
    IF DOMAIN outputs = {} THEN st
    ELSE LET key == CHOOSE x \in DOMAIN outputs : TRUE
         IN  Counted(st, TaskKey(task, key),
                     put_task_output(st.io_store, task, key, outputs[key]))

\* lines 110-115: for key, output in outputs.items(): put_task_output
RECURSIVE PutTaskOutputs(_, _, _)
PutTaskOutputs(st, task, outputs) ==
    IF DOMAIN outputs = {} THEN st
    ELSE LET key == CHOOSE x \in DOMAIN outputs : TRUE
         IN  PutTaskOutputs(
                 Counted(st, TaskKey(task, key),
                         put_task_output(st.io_store, task, key, outputs[key])),
                 task,
                 [x \in DOMAIN outputs \ {key} |-> outputs[x]])

\* lines 69-86: the loop body up to the runner call, for the task popped
PrepareTask(spec, store) ==
    LET nothing == Building(EmptyDict, <<>>, store)
    IN  IF spec.implementation = "dag"
        THEN Raised(nothing, Error("NotImplementedError",
                 "pipelines in pipelines are not yet supported", None))
        ELSE IF spec.implementation /= "executor_label"
        THEN Raised(nothing, Error("ValueError",
                 "Got unknown component implementation", None))
        ELSE IF validate_executor(spec.executor) /= NoError
        THEN Raised(nothing, validate_executor(spec.executor))
        ELSE make_task_arguments(spec.inputs, store)

\* sorted_tasks[-1]: the task is read and left on the stack
PopWithoutRemoving(stack) == [top |-> stack[Len(stack)], rest |-> stack]

\* sorted_tasks.pop(0)
PopFirst(stack) == [top |-> stack[1], rest |-> SubSeq(stack, 2, Len(stack))]

\* sorted_tasks.pop()
Pop(stack) == [top |-> stack[Len(stack)], rest |-> SubSeq(stack, 1, Len(stack) - 1)]

Init ==
    /\ dag_arguments \in RunDagArguments
    /\ dag_inputs_spec \in RunDagInputsSpecs
    /\ dag_arguments_with_defaults = EmptyDict
    /\ io_store = EmptyStore
    /\ sorted_tasks = <<>>
    /\ task_name = None
    /\ task_spec = NoTaskSpec
    /\ task_arguments = EmptyDict
    /\ pc = "start"
    /\ result = NoResult
    /\ error = NoError
    /\ topo_order = <<>>
    /\ dispatched = <<>>
    /\ reported = EmptyDict
    /\ returned_outputs = EmptyDict
    /\ put_count = EmptyDict
    /\ lookups = <<>>
    /\ dag_outputs_spec = NoOutputsSpec
    /\ dag_outputs = NoOutputs

\* a run_dag that seeds the store with the user's arguments and then again
\* with the merged ones
SeedStoreTwice ==
    /\ pc = "start"
    /\ LET joined == join_user_inputs_and_defaults(dag_arguments, dag_inputs_spec)
           first == PutParentInputs([io_store |-> io_store, put_count |-> put_count],
                                    dag_arguments)
           st == PutParentInputs(first, joined.ret)
       IN  /\ dag_arguments' = joined.dag_arguments
           /\ dag_arguments_with_defaults' = joined.ret
           /\ io_store' = st.io_store
           /\ put_count' = st.put_count
    /\ pc' = "seeded"
    /\ UNCHANGED <<dag_outputs_spec, dag_outputs>>
    /\ UNCHANGED <<dag_inputs_spec, sorted_tasks, task_name, task_spec,
                   task_arguments, result, error, topo_order, dispatched,
                   reported, returned_outputs, lookups>>

\* a run_dag that seeds the store with the user's arguments, not the merged
\* ones
SeedStoreUserArgumentsOnly ==
    /\ pc = "start"
    /\ LET joined == join_user_inputs_and_defaults(dag_arguments, dag_inputs_spec)
           st == PutParentInputs([io_store |-> io_store, put_count |-> put_count],
                                 dag_arguments)
       IN  /\ dag_arguments' = joined.dag_arguments
           /\ dag_arguments_with_defaults' = joined.ret
           /\ io_store' = st.io_store
           /\ put_count' = st.put_count
    /\ pc' = "seeded"
    /\ UNCHANGED <<dag_outputs_spec, dag_outputs>>
    /\ UNCHANGED <<dag_inputs_spec, sorted_tasks, task_name, task_spec,
                   task_arguments, result, error, topo_order, dispatched,
                   reported, returned_outputs, lookups>>

\* lines 57-62: merge the defaults, seed the store with the parent inputs
SeedStore ==
    /\ pc = "start"
    /\ LET joined == join_user_inputs_and_defaults(dag_arguments, dag_inputs_spec)
           st == PutParentInputs([io_store |-> io_store, put_count |-> put_count],
                                 joined.ret)
       IN  /\ dag_arguments' = joined.dag_arguments
           /\ dag_arguments_with_defaults' = joined.ret
           /\ io_store' = st.io_store
           /\ put_count' = st.put_count
    /\ pc' = "seeded"
    /\ UNCHANGED <<dag_outputs_spec, dag_outputs>>
    /\ UNCHANGED <<dag_inputs_spec, sorted_tasks, task_name, task_spec,
                   task_arguments, result, error, topo_order, dispatched,
                   reported, returned_outputs, lookups>>

\* lines 65-66: graph_utils.topological_sort_tasks returns some ordering of
\* the task names
SortTasks ==
    /\ pc = "seeded"
    /\ \E order \in Orderings(Tasks) :
           /\ sorted_tasks' = order
           /\ topo_order' = order
    /\ pc' = "loop"
    /\ UNCHANGED <<dag_outputs_spec, dag_outputs>>
    /\ UNCHANGED <<dag_arguments, dag_inputs_spec, dag_arguments_with_defaults,
                   io_store, task_name, task_spec, task_arguments, result,
                   error, dispatched, reported, returned_outputs, put_count,
                   lookups>>

\* lines 67-70, 81: pop the next task off the end of the stack and look up
\* its entry in dag_spec.tasks, its component and its executor
PopTask(spec) ==
    /\ pc = "loop"
    /\ sorted_tasks /= <<>>
    /\ task_name' = Pop(sorted_tasks).top
    /\ sorted_tasks' = Pop(sorted_tasks).rest
    /\ task_spec' = spec
    /\ pc' = "popped"
    /\ UNCHANGED <<dag_outputs_spec, dag_outputs>>
    /\ UNCHANGED <<dag_arguments, dag_inputs_spec, dag_arguments_with_defaults,
                   io_store, task_arguments, result, error, topo_order,
                   dispatched, reported, returned_outputs, put_count, lookups>>

\* lines 71-104: check the component and the executor, resolve the arguments
\* and call the runner; any of the checks may raise instead, and the task in
\* hand is then the one the exception is about
Dispatch ==
    /\ pc = "popped"
    /\ LET prepared == PrepareTask(task_spec, io_store)
       IN  /\ io_store' = prepared.io_store
           /\ lookups' = prepared.lookups
           /\ IF prepared.raised
              THEN /\ pc' = "raised"
                   /\ error' = prepared.error
                   /\ UNCHANGED <<task_spec, task_arguments, dispatched>>
              ELSE /\ pc' = "in_flight"
                   /\ task_spec' = NoTaskSpec
                   /\ task_arguments' = prepared.task_arguments
                   /\ dispatched' = Append(dispatched, task_name)
                   /\ UNCHANGED error
    /\ UNCHANGED <<dag_outputs_spec, dag_outputs>>
    /\ UNCHANGED <<dag_arguments, dag_inputs_spec, dag_arguments_with_defaults,
                   sorted_tasks, task_name, result, topo_order, reported,
                   returned_outputs, put_count>>

\* what every return of the runner records; the arguments of the task are
\* dead from here
RunnerReturned(task_status, outputs) ==
    /\ pc = "in_flight"
    /\ reported' = DictSet(reported, task_name, task_status)
    /\ returned_outputs' = DictSet(returned_outputs, task_name, outputs)
    /\ task_arguments' = EmptyDict
    /\ lookups' = <<>>
    /\ UNCHANGED <<dag_outputs_spec, dag_outputs>>
    /\ UNCHANGED <<dag_arguments, dag_inputs_spec, dag_arguments_with_defaults,
                   sorted_tasks, task_name, task_spec, topo_order, dispatched>>

\* a run_dag that stores the outputs before it looks at the status
TaskFailsAfterStoringOutputs(outputs) ==
    /\ RunnerReturned("FAILURE", outputs)
    /\ LET st == PutTaskOutputs([io_store |-> io_store, put_count |-> put_count],
                                task_name, outputs)
       IN  /\ io_store' = st.io_store
           /\ put_count' = st.put_count
    /\ pc' = "returned"
    /\ result' = Result("FAILURE", task_name)
    /\ UNCHANGED error

\* a run_dag that records the failure and goes on with the next task
TaskFailsAndRunContinues(outputs) ==
    /\ RunnerReturned("FAILURE", outputs)
    /\ pc' = "loop"
    /\ UNCHANGED <<io_store, put_count, error, result>>

\* a run_dag that raises on a FAILURE status
TaskFailsRaising(outputs) ==
    /\ RunnerReturned("FAILURE", outputs)
    /\ pc' = "raised"
    /\ error' = Error("RuntimeError", "Task failed", task_name)
    /\ UNCHANGED <<io_store, put_count, result>>

\* lines 106-107: the runner reports FAILURE
TaskFails(outputs) ==
    /\ RunnerReturned("FAILURE", outputs)
    /\ pc' = "returned"
    /\ result' = Result("FAILURE", task_name)
    /\ UNCHANGED <<io_store, put_count, error>>

\* a run_dag that goes on with the next task and leaves the outputs of the
\* successful one to be written later
TaskSucceedsDeferringWrites(outputs) ==
    /\ RunnerReturned("SUCCESS", outputs)
    /\ pc' = "loop"
    /\ UNCHANGED <<io_store, put_count, result, error>>

\* lines 108-115: the runner reports SUCCESS
TaskSucceeds(outputs) ==
    /\ RunnerReturned("SUCCESS", outputs)
    /\ LET st == PutTaskOutputs([io_store |-> io_store, put_count |-> put_count],
                                task_name, outputs)
       IN  /\ io_store' = st.io_store
           /\ put_count' = st.put_count
    /\ pc' = "loop"
    /\ UNCHANGED <<result, error>>

\* a run_dag whose last branch is the success branch
TaskStatusUnknownAsSuccess(task_status, outputs) ==
    /\ task_status \notin {"FAILURE", "SUCCESS"}
    /\ RunnerReturned(task_status, outputs)
    /\ LET st == PutTaskOutputs([io_store |-> io_store, put_count |-> put_count],
                                task_name, outputs)
       IN  /\ io_store' = st.io_store
           /\ put_count' = st.put_count
    /\ pc' = "loop"
    /\ UNCHANGED <<result, error>>

\* lines 116-117: the runner reports anything else
TaskStatusUnknown(task_status, outputs) ==
    /\ task_status \notin {"FAILURE", "SUCCESS"}
    /\ RunnerReturned(task_status, outputs)
    /\ pc' = "raised"
    /\ error' = Error("ValueError", "Got unknown task status", task_status)
    /\ UNCHANGED <<io_store, put_count, result>>

\* a run_dag that may return SUCCESS with tasks left on the stack
ReturnSuccessEarly ==
    /\ pc = "loop"
    /\ pc' = "returned"
    /\ result' = Result("SUCCESS", None)
    /\ UNCHANGED <<dag_outputs_spec, dag_outputs>>
    /\ UNCHANGED <<dag_arguments, dag_inputs_spec, dag_arguments_with_defaults,
                   io_store, sorted_tasks, task_name, task_spec, task_arguments,
                   error, topo_order, dispatched, reported, returned_outputs,
                   put_count, lookups>>

\* lines 67, 119: no task is left
ReturnSuccess ==
    /\ pc = "loop"
    /\ sorted_tasks = <<>>
    /\ pc' = "returned"
    /\ result' = Result("SUCCESS", None)
    /\ UNCHANGED <<dag_outputs_spec, dag_outputs>>
    /\ UNCHANGED <<dag_arguments, dag_inputs_spec, dag_arguments_with_defaults,
                   io_store, sorted_tasks, task_name, task_spec, task_arguments,
                   error, topo_order, dispatched, reported, returned_outputs,
                   put_count, lookups>>

Next ==
    \/ SeedStore
    \/ SortTasks
    \/ \E spec \in TaskSpecs : PopTask(spec)
    \/ Dispatch
    \/ \E outputs \in RunnerOutputs : TaskFails(outputs)
    \/ \E outputs \in RunnerOutputs : TaskSucceeds(outputs)
    \/ \E task_status \in Statuses, outputs \in RunnerOutputs :
           TaskStatusUnknown(task_status, outputs)
    \/ ReturnSuccess

Spec == Init /\ [][Next]_vars

----------------------------------------------------------------------------
(* join_user_inputs_and_defaults on its own: the first step of run_dag,    *)
(* lines 57-62, for every dict of user arguments and every declaration of  *)
(* at most two parameter inputs.                                           *)

JoinArguments == Dicts(DagInputNames, PyValues)
JoinInputsSpecs ==
    {<<>>}
    \cup {<<InputParameter(n, d)>> : n \in DagInputNames, d \in Pb2Values}
    \cup {<<InputParameter(o[1], d1), InputParameter(o[2], d2)>> :
             o \in Orderings(DagInputNames), d1 \in Pb2Values, d2 \in Pb2Values}

InitJoin ==
    /\ dag_arguments \in JoinArguments
    /\ dag_inputs_spec \in JoinInputsSpecs
    /\ dag_arguments_with_defaults = EmptyDict
    /\ io_store = EmptyStore
    /\ sorted_tasks = <<>>
    /\ task_name = None
    /\ task_spec = NoTaskSpec
    /\ task_arguments = EmptyDict
    /\ pc = "start"
    /\ result = NoResult
    /\ error = NoError
    /\ topo_order = <<>>
    /\ dispatched = <<>>
    /\ reported = EmptyDict
    /\ returned_outputs = EmptyDict
    /\ put_count = EmptyDict
    /\ lookups = <<>>
    /\ dag_outputs_spec = NoOutputsSpec
    /\ dag_outputs = NoOutputs

NextJoin == SeedStore

SpecJoin == InitJoin /\ [][NextJoin]_vars

----------------------------------------------------------------------------
(* make_task_arguments on its own: the loop body of run_dag from line 71,  *)
(* for a container task "A" with at most two inputs of any source (an      *)
(* input name has one descriptor, parameter or artifact) and a store that  *)
(* holds some of the values the inputs may name.                           *)

ArgTaskInputs ==
    {TaskInputsSpec(<<>>, <<>>)}
    \cup {TaskInputsSpec(<<Input(n, p)>>, <<>>) :
             n \in TaskInputNames, p \in ParameterSpecs}
    \cup {TaskInputsSpec(<<>>, <<Input(n, a)>>) :
             n \in TaskInputNames, a \in ArtifactSpecs}
    \cup {TaskInputsSpec(<<Input(o[1], p1), Input(o[2], p2)>>, <<>>) :
             o \in Orderings(TaskInputNames),
             p1 \in ParameterSpecs, p2 \in ParameterSpecs}
    \cup {TaskInputsSpec(<<Input(o[1], p)>>, <<Input(o[2], a)>>) :
             o \in Orderings(TaskInputNames),
             p \in ParameterSpecs, a \in ArtifactSpecs}
    \cup {TaskInputsSpec(<<>>, <<Input(o[1], a1), Input(o[2], a2)>>) :
             o \in Orderings(TaskInputNames),
             a1 \in ArtifactSpecs, a2 \in ArtifactSpecs}
ArgStores ==
    Dicts({ParentKey("a"), TaskKey("A", "x"), TaskKey("B", "w")},
          {PyNumber(0), Artifact(MaxVal)})

InitArgs ==
    /\ dag_arguments = EmptyDict
    /\ dag_inputs_spec = <<>>
    /\ dag_arguments_with_defaults = EmptyDict
    /\ io_store \in ArgStores
    /\ sorted_tasks = <<>>
    /\ task_name = "A"
    /\ task_spec \in {TaskSpec("executor_label", "container", inputs) :
                         inputs \in ArgTaskInputs}
    /\ task_arguments = EmptyDict
    /\ pc = "popped"
    /\ result = NoResult
    /\ error = NoError
    /\ topo_order = <<"A">>
    /\ dispatched = <<>>
    /\ reported = EmptyDict
    /\ returned_outputs = EmptyDict
    /\ put_count = [k \in DOMAIN io_store |-> 1]
    /\ lookups = <<>>
    /\ dag_outputs_spec = NoOutputsSpec
    /\ dag_outputs = NoOutputs

NextArgs == Dispatch

SpecArgs == InitArgs /\ [][NextArgs]_vars

----------------------------------------------------------------------------
(* get_dag_outputs on its own: called once run_dag has returned SUCCESS,   *)
(* for every DagOutputsSpec of at most two parameter outputs and two       *)
(* artifact outputs (a name may be declared as both) and a store that      *)
(* holds some of the task outputs the selectors may name.                  *)

\* lines 308-316: the call; an exception leaves the caller without a dict
GetDagOutputs(spec) ==
    /\ pc = "returned"
    /\ result = Result("SUCCESS", None)
    /\ ~dag_outputs.called
    /\ LET got == get_dag_outputs(spec, io_store)
       IN  /\ dag_outputs_spec' = spec
           /\ dag_outputs' = [called |-> TRUE, raised |-> got.raised,
                              error |-> got.error,
                              outputs |-> IF got.raised THEN EmptyDict
                                          ELSE got.outputs]
           /\ io_store' = got.io_store
    /\ UNCHANGED <<dag_arguments, dag_inputs_spec, dag_arguments_with_defaults,
                   sorted_tasks, task_name, task_spec, task_arguments, pc,
                   result, error, topo_order, dispatched, reported,
                   returned_outputs, put_count, lookups>>

OutputNames == {"out", "art"}
OutParameterLists ==
    {<<>>}
    \cup {<<OutputParameter(n, sel)>> : n \in OutputNames, sel \in ParameterSelectors}
    \cup {<<OutputParameter(o[1], s1), OutputParameter(o[2], s2)>> :
             o \in Orderings(OutputNames),
             s1 \in ParameterSelectors, s2 \in ParameterSelectors}
OutArtifactLists ==
    {<<>>}
    \cup {<<OutputArtifact(n, sels)>> :
             n \in OutputNames, sels \in ArtifactSelectorLists}
    \cup {<<OutputArtifact(o[1], l1), OutputArtifact(o[2], l2)>> :
             o \in Orderings(OutputNames),
             l1 \in ArtifactSelectorLists, l2 \in ArtifactSelectorLists}
OutDagOutputsSpecs ==
    {DagOutputsSpec(ps, as) : ps \in OutParameterLists, as \in OutArtifactLists}
OutStores ==
    {store \in Dicts({TaskKey("A", "x"), TaskKey("B", "w")},
                     {PyNumber(0), Artifact(MaxVal)}) :
        TaskKey("B", "w") \in DOMAIN store => store[TaskKey("B", "w")] = PyNumber(0)}

InitOutputs ==
    /\ dag_arguments = EmptyDict
    /\ dag_inputs_spec = <<>>
    /\ dag_arguments_with_defaults = EmptyDict
    /\ io_store \in OutStores
    /\ sorted_tasks = <<>>
    /\ task_name = None
    /\ task_spec = NoTaskSpec
    /\ task_arguments = EmptyDict
    /\ pc = "returned"
    /\ result = Result("SUCCESS", None)
    /\ error = NoError
    /\ topo_order = <<>>
    /\ dispatched = <<>>
    /\ reported = EmptyDict
    /\ returned_outputs = EmptyDict
    /\ put_count = [k \in DOMAIN io_store |-> 1]
    /\ lookups = <<>>
    /\ dag_outputs_spec \in OutDagOutputsSpecs
    /\ dag_outputs = NoOutputs

NextOutputs == GetDagOutputs(dag_outputs_spec)

SpecOutputs == InitOutputs /\ [][NextOutputs]_vars

----------------------------------------------------------------------------
(* A whole run: run_dag, and get_dag_outputs once it has returned SUCCESS, *)
(* for a few DagOutputsSpecs: a valid one, a one-of parameter output and   *)
(* an artifact output without selector.                                    *)

FewDagOutputsSpecs ==
    {DagOutputsSpec(
         <<OutputParameter("out", ValueFromParameter(TaskNames[1], "x"))>>,
         <<OutputArtifact("art", <<ArtifactSelector(TaskNames[MaxTasks], "w")>>)>>),
     DagOutputsSpec(<<OutputParameter("out", ValueFromOneof)>>, <<>>),
     DagOutputsSpec(<<>>, <<OutputArtifact("art", <<>>)>>)}

NextRun ==
    \/ Next
    \/ \E spec \in FewDagOutputsSpecs : GetDagOutputs(spec)

SpecRun == Init /\ [][NextRun]_vars

----------------------------------------------------------------------------
(* Properties of run_dag.                                                  *)

Range(seq) == {seq[i] : i \in DOMAIN seq}

\* C1: once a dispatched task has reported FAILURE, run_dag has returned
\* (FAILURE, that task); that task is the last one ever dispatched, so no task
\* still on the stack (ordered after it, dependent on it or not) is
\* dispatched; and no task dispatched before it reported FAILURE.
C1_FailureStopsTheRun ==
    \A t \in DOMAIN reported :
        reported[t] = "FAILURE" =>
            /\ pc = "returned"
            /\ result = Result("FAILURE", t)
            /\ dispatched /= <<>>
            /\ dispatched[Len(dispatched)] = t
            /\ \A u \in Range(sorted_tasks) : u \notin Range(dispatched)
            /\ \A i \in 1..(Len(dispatched) - 1) :
                   reported[dispatched[i]] /= "FAILURE"

\* a task failed while another task was still waiting on the stack
C1_Witness ==
    /\ pc = "returned"
    /\ result.status = "FAILURE"
    /\ reported[result.task] = "FAILURE"
    /\ sorted_tasks /= <<>>

\* the task is a leaf component run by a container executor
Leaf(spec) == spec.implementation = "executor_label" /\ spec.executor = "container"

\* the runner has reported SUCCESS for `task` and returned an output `key`
Produced(task, key) ==
    /\ task \in DOMAIN reported
    /\ reported[task] = "SUCCESS"
    /\ key \in DOMAIN returned_outputs[task]

\* `name` is an argument of the user or a declared parameter input of the DAG
DagInput(name) ==
    name \in DOMAIN dag_arguments \/ \E i \in DOMAIN dag_inputs_spec :
                                        dag_inputs_spec[i].name = name

\* every input names a source that exists when the task is reached
ParameterResolvable(input_spec) ==
    \/ input_spec.kind = "runtime_value" /\ input_spec.value = "constant"
    \/ /\ input_spec.kind = "task_output_parameter"
       /\ Produced(input_spec.producer_task, input_spec.output_key)
    \/ /\ input_spec.kind = "component_input_parameter"
       /\ DagInput(input_spec.component_input)
ArtifactResolvable(input_spec) ==
    \/ /\ input_spec.kind = "task_output_artifact"
       /\ Produced(input_spec.producer_task, input_spec.output_key)
    \/ /\ input_spec.kind = "component_input_artifact"
       /\ DagInput(input_spec.component_input)
Resolvable(inputs) ==
    /\ \A i \in DOMAIN inputs.parameters :
           ParameterResolvable(inputs.parameters[i].spec)
    /\ \A i \in DOMAIN inputs.artifacts :
           ArtifactResolvable(inputs.artifacts[i].spec)

\* every declared output names one producer and an output it returned
OutputsResolvable(outs) ==
    /\ \A i \in DOMAIN outs.parameters :
           LET sel == outs.parameters[i].spec
           IN  /\ sel.kind = "value_from_parameter"
               /\ Produced(sel.producer_subtask, sel.output_parameter_key)
    /\ \A i \in DOMAIN outs.artifacts :
           LET sels == outs.artifacts[i].artifact_selectors
           IN  /\ Len(sels) = 1
               /\ Produced(sels[1].producer_subtask, sels[1].output_artifact_key)

\* C2 (dispatch): a leaf container task whose inputs are all resolvable is
\* handed to the runner; run_dag does not raise on it.
C2_ResolvableTaskIsDispatched ==
    (pc = "popped" /\ Leaf(task_spec) /\ Resolvable(task_spec.inputs))
        => (pc' = "in_flight" /\ dispatched' = Append(dispatched, task_name))

\* C2 (result): run_dag raises only on a task it did not dispatch or on an
\* unknown status; when it returns and every report was SUCCESS, it returns
\* (SUCCESS, None) and every task was dispatched, once.
C2_AllSucceedMeansSuccess ==
    /\ pc = "raised" =>
           \/ task_name \notin Range(dispatched)
           \/ reported[task_name] \notin {"SUCCESS", "FAILURE"}
    /\ (pc = "returned" /\ \A t \in DOMAIN reported : reported[t] = "SUCCESS") =>
           /\ result = Result("SUCCESS", None)
           /\ Range(dispatched) = Tasks
           /\ Len(dispatched) = Cardinality(Tasks)
           /\ DOMAIN reported = Tasks

\* C2 (outputs): after (SUCCESS, None), get_dag_outputs maps every declared
\* output to the value its producer returned under the designated key.
C2_OutputsAreTheProducersValues ==
    (pc = "returned" /\ result.status = "SUCCESS") =>
        \A outs \in RunDagOutputsSpecs :
            OutputsResolvable(outs) =>
                LET got == get_dag_outputs(outs, io_store)
                IN  /\ ~got.raised
                    /\ DOMAIN got.outputs =
                           {outs.parameters[i].name : i \in DOMAIN outs.parameters}
                           \cup {outs.artifacts[i].name : i \in DOMAIN outs.artifacts}
                    /\ \A i \in DOMAIN outs.parameters :
                           LET sel == outs.parameters[i].spec
                           IN  got.outputs[outs.parameters[i].name] =
                                   returned_outputs[sel.producer_subtask]
                                                   [sel.output_parameter_key]
                    /\ \A i \in DOMAIN outs.artifacts :
                           LET sel == outs.artifacts[i].artifact_selectors[1]
                           IN  got.outputs[outs.artifacts[i].name] =
                                   returned_outputs[sel.producer_subtask]
                                                   [sel.output_artifact_key]

\* C2: with resolvable leaf tasks and a runner that always reports SUCCESS,
\* every task is dispatched, run_dag returns (SUCCESS, None), and
\* get_dag_outputs yields the producers' values.
C2_SuccessfulRun ==
    /\ [][C2_ResolvableTaskIsDispatched]_vars
    /\ [](C2_AllSucceedMeansSuccess /\ C2_OutputsAreTheProducersValues)

\* a run returned (SUCCESS, None) and a declared parameter output and a
\* declared artifact output are both read from different producers
C2_Witness ==
    /\ pc = "returned"
    /\ result = Result("SUCCESS", None)
    /\ \E outs \in RunDagOutputsSpecs :
           /\ OutputsResolvable(outs)
           /\ Len(outs.parameters) = 1
           /\ Len(outs.artifacts) = 1
           /\ outs.parameters[1].spec.producer_subtask
                  /= outs.artifacts[1].artifact_selectors[1].producer_subtask
           /\ Cardinality(DOMAIN get_dag_outputs(outs, io_store).outputs) = 2

\* the (task, key) outputs of other tasks that the inputs consume
ConsumedOutputs(inputs) ==
    {TaskKey(inputs.parameters[i].spec.producer_task,
             inputs.parameters[i].spec.output_key) :
        i \in {j \in DOMAIN inputs.parameters :
                  inputs.parameters[j].spec.kind = "task_output_parameter"}}
    \cup
    {TaskKey(inputs.artifacts[i].spec.producer_task,
             inputs.artifacts[i].spec.output_key) :
        i \in {j \in DOMAIN inputs.artifacts :
                  inputs.artifacts[j].spec.kind = "task_output_artifact"}}

\* the position of a task in the sequence topological_sort_tasks returned
Position(task) == CHOOSE i \in DOMAIN topo_order : topo_order[i] = task

\* the producer reported SUCCESS and all it returned is in the store
OutputsWritten(task) ==
    /\ task \in Range(dispatched)
    /\ task \in DOMAIN reported
    /\ reported[task] = "SUCCESS"
    /\ \A k \in DOMAIN returned_outputs[task] :
           get_task_output(io_store, task, k) = Found(returned_outputs[task][k])

C4_FailureWritesNothingAndKeepsTheRest ==
    (pc = "returned" /\ result.status = "FAILURE") =>
        /\ \A k \in DOMAIN io_store :
               ~(k.space = "task_output" /\ k.task = result.task)
        /\ \A n \in DOMAIN dag_arguments_with_defaults :
               get_parent_input(io_store, n) = Found(dag_arguments_with_defaults[n])
        /\ \A t \in Range(dispatched) \ {result.task} :
               \A k \in DOMAIN returned_outputs[t] :
                   get_task_output(io_store, t, k) = Found(returned_outputs[t][k])

\* a task failed handing back outputs, after another task's outputs and the
\* parent inputs had been written
C4_Witness ==
    /\ pc = "returned"
    /\ result.status = "FAILURE"
    /\ returned_outputs[result.task] /= EmptyDict
    /\ dag_arguments_with_defaults /= EmptyDict
    /\ \E t \in Range(dispatched) \ {result.task} : returned_outputs[t] /= EmptyDict

\* C5 (state): every key in the store was put exactly once, and a task-output
\* entry belongs to a task that was dispatched and reported SUCCESS.
C5_WrittenOnce ==
    /\ DOMAIN put_count = DOMAIN io_store
    /\ \A k \in DOMAIN put_count : put_count[k] = 1
    /\ \A k \in DOMAIN io_store :
           k.space = "task_output" =>
               /\ k.task \in Range(dispatched)
               /\ k.task \in DOMAIN reported
               /\ reported[k.task] = "SUCCESS"

\* C5 (step): no step removes an entry of the store or changes its value.
C5_StoreGrows ==
    \A k \in DOMAIN io_store : k \in DOMAIN io_store' /\ io_store'[k] = io_store[k]

\* C5: started on an empty store, a run only adds entries, each written once,
\* task outputs only for tasks that reported SUCCESS.
C5_StoreOnlyGrows == [][C5_StoreGrows]_vars /\ []C5_WrittenOnce

\* the store holds parent inputs and the outputs of two tasks
C5_Witness ==
    /\ \E k \in DOMAIN io_store : k.space = "parent_input"
    /\ \E k1, k2 \in DOMAIN io_store :
           /\ k1.space = "task_output"
           /\ k2.space = "task_output"
           /\ k1.task /= k2.task

\* the task definitions C6 calls malformed or unsupported
Malformed(spec) ==
    \/ spec.implementation /= "executor_label"
    \/ spec.executor /= "container"
    \/ \E i \in DOMAIN spec.inputs.parameters :
           spec.inputs.parameters[i].spec.kind \in {None, "task_final_status"}
    \/ \E i \in DOMAIN spec.inputs.artifacts :
           spec.inputs.artifacts[i].spec.kind
               \notin {"task_output_artifact", "component_input_artifact"}

\* C6 (step): reaching a malformed task raises, dispatches nothing and
\* returns nothing; nothing happens after an exception.
C6_MalformedTaskRaises ==
    /\ (pc = "popped" /\ Malformed(task_spec)) =>
           /\ pc' = "raised"
           /\ error' /= NoError
           /\ dispatched' = dispatched
           /\ result' = NoResult
    /\ pc /= "raised"

\* C6 (state): an exception is never a (FAILURE, task) result, the tasks left
\* on the stack were not dispatched, and a (FAILURE, task) result comes from
\* a FAILURE the runner reported for that task.
C6_TwoChannels ==
    /\ pc = "raised" =>
           /\ result = NoResult
           /\ error /= NoError
           /\ \A u \in Range(sorted_tasks) : u \notin Range(dispatched)
    /\ result.status = "FAILURE" =>
           /\ pc = "returned"
           /\ error = NoError
           /\ result.task \in DOMAIN reported
           /\ reported[result.task] = "FAILURE"

\* C6: a malformed or unsupported task aborts run_dag with an exception before
\* it is dispatched, and (FAILURE, task) is only ever a runner's FAILURE.
C6_MalformedIsFatalNotFailure == [][C6_MalformedTaskRaises]_vars /\ []C6_TwoChannels

\* run_dag raised on a malformed task after it had dispatched another one
C6_Witness ==
    /\ pc = "raised"
    /\ task_spec /= NoTaskSpec
    /\ Malformed(task_spec)
    /\ dispatched /= <<>>
    /\ task_name \notin Range(dispatched)

\* C8: no step of run_dag changes the caller's dict of user arguments.
C8_CallerArgumentsUnchanged == [][dag_arguments' = dag_arguments]_vars

\* defaults were merged for inputs the user did not pass
C8_Witness ==
    /\ pc = "returned"
    /\ dag_arguments /= EmptyDict
    /\ DOMAIN dag_arguments_with_defaults /= DOMAIN dag_arguments

----------------------------------------------------------------------------
(* Properties of join_user_inputs_and_defaults.                            *)

DeclaredNames == {dag_inputs_spec[i].name : i \in DOMAIN dag_inputs_spec}

\* C7: the merged dict has the user's value for every key the user passed,
\* the converted default for every declared input the user did not pass, and
\* no other key.
C7_MergeStep ==
    pc = "start" =>
        LET ret == dag_arguments_with_defaults'
        IN  /\ DOMAIN ret = DOMAIN dag_arguments \cup DeclaredNames
            /\ \A k \in DOMAIN dag_arguments : ret[k] = dag_arguments[k]
            /\ \A i \in DOMAIN dag_inputs_spec :
                   dag_inputs_spec[i].name \notin DOMAIN dag_arguments =>
                       ret[dag_inputs_spec[i].name] =
                           pb2_value_to_python(dag_inputs_spec[i].default_value)

\* C7: in the merged arguments a key supplied by the caller keeps the caller's
\* value, and a declared default is taken only for a name the caller left out.
C7_UserValuesWin == [][C7_MergeStep]_vars

\* the user passed one input that has a different default and left out
\* another declared input
C7_Witness ==
    /\ pc = "seeded"
    /\ \E i, j \in DOMAIN dag_inputs_spec :
           /\ dag_inputs_spec[i].name \in DOMAIN dag_arguments
           /\ pb2_value_to_python(dag_inputs_spec[i].default_value)
                  /= dag_arguments[dag_inputs_spec[i].name]
           /\ dag_inputs_spec[j].name \notin DOMAIN dag_arguments
           /\ dag_inputs_spec[j].name \in DOMAIN dag_arguments_with_defaults

----------------------------------------------------------------------------
(* Properties of make_task_arguments.                                      *)

\* the store key an upstream-sourced or parent-sourced input names
StoreKeyOf(input_spec) ==
    IF input_spec.kind \in {"task_output_parameter", "task_output_artifact"}
    THEN TaskKey(input_spec.producer_task, input_spec.output_key)
    ELSE ParentKey(input_spec.component_input)

\* the store keys the inputs name, in the order of the inputs
KeysNamed(entries) ==
    LET sourced == SelectSeq(entries, LAMBDA e : e.spec.kind /= "runtime_value")
    IN  [i \in DOMAIN sourced |-> StoreKeyOf(sourced[i].spec)]

\* C9: when make_task_arguments returns, the dict has one entry per declared
\* input; a constant is the decoded literal, an upstream or parent input is
\* the value the store held under the key it names; and the store was read
\* for the upstream and parent inputs only.
C9_ArgumentsStep ==
    (pc = "popped" /\ pc' = "in_flight") =>
        LET ps == task_spec.inputs.parameters
            as == task_spec.inputs.artifacts
        IN  /\ DOMAIN task_arguments' =
                   {ps[i].name : i \in DOMAIN ps} \cup {as[i].name : i \in DOMAIN as}
            /\ \A i \in DOMAIN ps :
                   /\ ps[i].spec.kind \in {"runtime_value", "task_output_parameter",
                                           "component_input_parameter"}
                   /\ ps[i].spec.kind = "runtime_value" =>
                          task_arguments'[ps[i].name] =
                              pb2_value_to_python(ps[i].spec.constant)
                   /\ ps[i].spec.kind /= "runtime_value" =>
                          /\ StoreKeyOf(ps[i].spec) \in DOMAIN io_store
                          /\ task_arguments'[ps[i].name] =
                                 io_store[StoreKeyOf(ps[i].spec)]
            /\ \A i \in DOMAIN as :
                   /\ as[i].spec.kind \in {"task_output_artifact",
                                           "component_input_artifact"}
                   /\ StoreKeyOf(as[i].spec) \in DOMAIN io_store
                   /\ task_arguments'[as[i].name] = io_store[StoreKeyOf(as[i].spec)]
            /\ lookups' = KeysNamed(ps) \o KeysNamed(as)

\* C9: when make_task_arguments returns, every declared input is keyed by its
\* name and valued according to its source: the decoded constant, the stored
\* upstream output, or the stored DAG input.
C9_ArgumentsBySource == [][C9_ArgumentsStep]_vars

\* a call returned two arguments and read the store once: a constant and a
\* stored value
C9_Witness ==
    /\ pc = "in_flight"
    /\ Cardinality(DOMAIN task_arguments) = 2
    /\ Len(lookups) = 1
    /\ \E n \in DOMAIN task_arguments : task_arguments[n] = io_store[lookups[1]]
    /\ \E n \in DOMAIN task_arguments : task_arguments[n] = PyNumber(MaxVal)

\* the inputs in the order make_task_arguments takes them
EntriesInOrder(inputs) ==
    [i \in 1..(Len(inputs.parameters) + Len(inputs.artifacts)) |->
        IF i <= Len(inputs.parameters)
        THEN [map |-> "parameters", name |-> inputs.parameters[i].name,
              spec |-> inputs.parameters[i].spec]
        ELSE [map |-> "artifacts",
              name |-> inputs.artifacts[i - Len(inputs.parameters)].name,
              spec |-> inputs.artifacts[i - Len(inputs.parameters)].spec]]

\* the descriptor names no source its kind of input can be resolved from
NoUsableSource(entry) ==
    IF entry.map = "parameters"
    THEN entry.spec.kind \in {None, "task_final_status"}
    ELSE entry.spec.kind \notin {"task_output_artifact", "component_input_artifact"}

\* the input yields a value from this store
Resolves(entry, store) ==
    IF entry.spec.kind = "runtime_value"
    THEN entry.map = "parameters" /\ entry.spec.value = "constant"
    ELSE ~NoUsableSource(entry) /\ StoreKeyOf(entry.spec) \in DOMAIN store

\* C10: with an input that names no usable source, make_task_arguments
\* raises, returns no dict, and the task is not dispatched; the exception is
\* the one of the first input that does not resolve: ValueError naming the
\* input for a parameter without source or an artifact without an upstream
\* or parent source, NotImplementedError for a final-status parameter.
C10_UnresolvableStep ==
    pc = "popped" =>
        LET entries == EntriesInOrder(task_spec.inputs)
            failing == {i \in DOMAIN entries : ~Resolves(entries[i], io_store)}
        IN  /\ (\E i \in DOMAIN entries : NoUsableSource(entries[i])) =>
                   /\ pc' = "raised"
                   /\ task_arguments' = task_arguments
                   /\ dispatched' = dispatched
            /\ failing /= {} =>
                   LET first == entries[CHOOSE i \in failing :
                                           \A j \in failing : i <= j]
                   IN  /\ pc' = "raised"
                       /\ (first.map = "parameters" /\ first.spec.kind = None) =>
                              error' = Error("ValueError",
                                             "Missing input for parameter", first.name)
                       /\ (first.map = "parameters"
                              /\ first.spec.kind = "task_final_status") =>
                              error'.type = "NotImplementedError"
                       /\ (first.map = "artifacts" /\ NoUsableSource(first)) =>
                              error' = Error("ValueError",
                                             "Missing input for artifact", first.name)

\* C10: an input without a usable source or with a missing store entry makes
\* make_task_arguments raise; the task is not dispatched.
C10_UnresolvableInputRaises == [][C10_UnresolvableStep]_vars

\* a call read one input from the store and raised on the artifact after it
C10_Witness ==
    /\ pc = "raised"
    /\ Len(task_spec.inputs.parameters) = 1
    /\ Len(lookups) = 1
    /\ error = Error("ValueError", "Missing input for artifact", "z")
    /\ dispatched = <<>>

----------------------------------------------------------------------------
(* validate_executor in run_dag.                                           *)

ExecutorErrors == {"Importer is not yet supported",
                   "Got unknown spec in ExecutorSpec"}

\* the step of run_dag that handles the task popped, for a component that
\* names an executor: a container executor passes the validation; an importer
\* raises NotImplementedError and any other kind, none included, ValueError,
\* and then no argument is resolved and the runner is not called
C11_ValidationStep ==
    (pc = "popped" /\ task_spec.implementation = "executor_label") =>
        /\ task_spec.executor = "container" =>
               (pc' = "raised" => error'.msg \notin ExecutorErrors)
        /\ task_spec.executor = "importer" =>
               /\ pc' = "raised"
               /\ error'.type = "NotImplementedError"
               /\ error'.msg = "Importer is not yet supported"
        /\ task_spec.executor \notin {"container", "importer"} =>
               /\ pc' = "raised"
               /\ error'.type = "ValueError"
               /\ error'.msg = "Got unknown spec in ExecutorSpec"
        /\ task_spec.executor /= "container" =>
               /\ dispatched' = dispatched
               /\ task_arguments' = EmptyDict
               /\ lookups' = <<>>
               /\ io_store' = io_store

\* a task whose executor was rejected is never handed to the runner
C11_RejectedNeverDispatched ==
    (pc = "raised" /\ error.msg \in ExecutorErrors) =>
        /\ task_name \notin Range(dispatched)
        /\ task_name \notin DOMAIN reported
        /\ result = NoResult

\* C11: validate_executor accepts exactly the container kind; an importer is
\* rejected as unsupported, every other kind as invalid, and in run_dag the
\* rejected task is neither dispatched nor given arguments.
C11_OnlyContainerExecutors ==
    [][C11_ValidationStep]_vars /\ []C11_RejectedNeverDispatched

\* both rejections have happened to a task with an input to resolve, after
\* another task was dispatched
C11_Witness ==
    /\ pc = "raised"
    /\ error.msg = "Got unknown spec in ExecutorSpec"
    /\ task_spec.executor = None
    /\ task_spec.inputs.parameters /= <<>>
    /\ dispatched /= <<>>

----------------------------------------------------------------------------
(* get_dag_outputs.                                                        *)

\* the declared outputs in the order get_dag_outputs goes through them
OutputsInOrder(spec) ==
    [i \in 1..Len(spec.parameters) |->
        [map |-> "parameters", name |-> spec.parameters[i].name,
         entry |-> spec.parameters[i]]]
    \o [i \in 1..Len(spec.artifacts) |->
        [map |-> "artifacts", name |-> spec.artifacts[i].name,
         entry |-> spec.artifacts[i]]]

OneOf(e) == e.map = "parameters" /\ e.entry.spec.kind = "value_from_oneof"
NoKind(e) ==
    e.map = "parameters"
    /\ e.entry.spec.kind \notin {"value_from_parameter", "value_from_oneof"}
NotOneSelector(e) == e.map = "artifacts" /\ Len(e.entry.artifact_selectors) /= 1
Invalid(e) == OneOf(e) \/ NoKind(e) \/ NotOneSelector(e)

\* the store key a valid declared output names
ProducerKey(e) ==
    IF e.map = "parameters"
    THEN TaskKey(e.entry.spec.producer_subtask, e.entry.spec.output_parameter_key)
    ELSE TaskKey(e.entry.artifact_selectors[1].producer_subtask,
                 e.entry.artifact_selectors[1].output_artifact_key)

Stops(e, store) == Invalid(e) \/ ProducerKey(e) \notin DOMAIN store

GetDagOutputsCalled == ~dag_outputs.called /\ dag_outputs'.called

\* the first declared output, in that order, at which the call stops
RECURSIVE FirstStop(_, _)
FirstStop(es, store) ==
    IF es = <<>> THEN [map |-> None, name |-> None]
    ELSE IF Stops(Head(es), store) THEN Head(es)
    ELSE FirstStop(Tail(es), store)

C12_RejectionStep ==
    GetDagOutputsCalled =>
        LET es == OutputsInOrder(dag_outputs_spec')
            first == FirstStop(es, io_store)
        IN  /\ (\E i \in DOMAIN es : Invalid(es[i])) =>
                   /\ dag_outputs'.raised
                   /\ dag_outputs'.outputs = EmptyDict
            /\ (first.map /= None /\ Invalid(first)) =>
                   /\ OneOf(first) =>
                          dag_outputs'.error.type = "NotImplementedError"
                   /\ (NoKind(first) \/ NotOneSelector(first)) =>
                          dag_outputs'.error.type = "ValueError"
                   /\ dag_outputs'.error.arg = first.name

\* C12: get_dag_outputs raises, returning no map, whenever an artifact output
\* has zero or several selectors or a parameter output is a one-of or has no
\* recognised kind; a one-of is NotImplementedError, the others ValueError,
\* the first declared output that stops the call deciding which.
C12_InvalidOutputSpecRejected == [][C12_RejectionStep]_vars

\* a two-selector artifact output was rejected after a parameter output
\* had been resolved
C12_Witness ==
    /\ dag_outputs.called /\ dag_outputs.raised
    /\ dag_outputs.error.type = "ValueError"
    /\ Len(dag_outputs_spec.parameters) = 1
    /\ dag_outputs_spec.parameters[1].spec.kind = "value_from_parameter"
    /\ Len(dag_outputs_spec.artifacts) = 1
    /\ Len(dag_outputs_spec.artifacts[1].artifact_selectors) = 2

C13_OutputsStep ==
    GetDagOutputsCalled =>
        LET es == OutputsInOrder(dag_outputs_spec')
            artifact_names == {es[i].name : i \in {j \in DOMAIN es :
                                                      es[j].map = "artifacts"}}
        IN  /\ (\A i \in DOMAIN es : ~Stops(es[i], io_store)) =>
                   ~dag_outputs'.raised
            /\ ~dag_outputs'.raised =>
                   /\ DOMAIN dag_outputs'.outputs = {es[i].name : i \in DOMAIN es}
                   /\ \A i \in DOMAIN es :
                          (es[i].map = "artifacts" \/ es[i].name \notin artifact_names)
                              => dag_outputs'.outputs[es[i].name] =
                                     io_store[ProducerKey(es[i])]

\* C13: for a valid specification get_dag_outputs returns a map whose keys are
\* the declared parameter and artifact output names, each with the stored value
\* of its producer; a name declared as both has the artifact's value.
C13_OutputsMap == [][C13_OutputsStep]_vars

\* a name declared as both, whose two producers hold different values
C13_Witness ==
    /\ dag_outputs.called /\ ~dag_outputs.raised
    /\ \E i \in DOMAIN dag_outputs_spec.parameters,
          j \in DOMAIN dag_outputs_spec.artifacts :
           LET p == dag_outputs_spec.parameters[i]
               a == dag_outputs_spec.artifacts[j]
           IN  /\ p.name = a.name
               /\ io_store[TaskKey(p.spec.producer_subtask,
                                   p.spec.output_parameter_key)]
                  /= dag_outputs.outputs[a.name]
    /\ Cardinality(DOMAIN dag_outputs.outputs) = 2

----------------------------------------------------------------------------
(* A status that is neither SUCCESS nor FAILURE.                           *)

\* C14: once the runner has reported such a status for a task, run_dag has
\* raised ValueError about that status: it has returned no tuple, none of the
\* outputs the runner returned for the task is in the store, and the task is
\* the last one dispatched.
C14_UnknownStatusIsFatal ==
    \A t \in DOMAIN reported :
        reported[t] \notin {"SUCCESS", "FAILURE"} =>
            /\ pc = "raised"
            /\ error = Error("ValueError", "Got unknown task status", reported[t])
            /\ result = NoResult
            /\ dispatched[Len(dispatched)] = t
            /\ \A k \in OutputKeys : TaskKey(t, k) \notin DOMAIN io_store

\* the second task reported such a status together with outputs, and a task
\* is still on the stack
C14_Witness ==
    /\ pc = "raised"
    /\ Len(dispatched) >= 1
    /\ \E t \in DOMAIN reported :
           /\ reported[t] \notin {"SUCCESS", "FAILURE"}
           /\ DOMAIN returned_outputs[t] /= {}
    /\ \E t \in DOMAIN reported : reported[t] = "SUCCESS"

----------------------------------------------------------------------------
(* Sequential execution.                                                   *)

\* the tasks handed to the runner whose call has not returned
InFlight == {t \in Range(dispatched) : t \notin DOMAIN reported}

\* at most one task is in flight, and it is the one run_dag waits for; all
\* the others dispatched have returned, and a successful one's outputs are
\* in the store before run_dag takes, resolves or dispatches another task
C15_OneAtATime ==
    /\ Cardinality(InFlight) <= 1
    /\ InFlight /= {} <=> pc = "in_flight"
    /\ pc = "in_flight" => InFlight = {task_name}
    /\ pc \in {"loop", "popped", "in_flight"} =>
           \A t \in Range(dispatched) \ InFlight : OutputsWritten(t)

\* the store is not written by the step that calls the runner; a step that
\* writes task outputs is the return of the task in flight, and it writes
\* the outputs of that task only
C15_WriteAfterCompletion ==
    /\ pc' = "in_flight" => io_store' = io_store
    /\ \A k \in DOMAIN io_store' \ DOMAIN io_store :
           k.space = "task_output" =>
               /\ pc = "in_flight"
               /\ k.task = task_name
               /\ InFlight' = {}

\* C15: run_dag runs one task at a time and writes a task's outputs only once
\* the task has completed, all of them before the next task is handled.
C15_Sequential == [][C15_WriteAfterCompletion]_vars /\ []C15_OneAtATime

\* a second task, which consumes nothing of the first, is in flight and the
\* outputs of the first are in the store
C15_Witness ==
    /\ pc = "in_flight"
    /\ Len(dispatched) = 2
    /\ task_arguments = EmptyDict
    /\ DOMAIN returned_outputs[dispatched[1]] = OutputKeys
    /\ OutputsWritten(dispatched[1])

----------------------------------------------------------------------------
(* No retries.                                                             *)

\* the number of times a task was handed to the runner
TimesDispatched(t) == Cardinality({i \in DOMAIN dispatched : dispatched[i] = t})

\* C16: no task is handed to the runner twice in one run, a task that
\* reported FAILURE included, and (SUCCESS, None) is returned only when every
\* task of the DAG was dispatched exactly once and reported SUCCESS.
C16_AtMostOnceAndSuccessMeansAll ==
    /\ \A t \in Tasks : TimesDispatched(t) <= 1
    /\ Range(dispatched) \subseteq Tasks
    /\ \A t \in DOMAIN reported : TimesDispatched(t) = 1
    /\ result.status = "SUCCESS" =>
           /\ result.task = None
           /\ \A t \in Tasks :
                  /\ TimesDispatched(t) = 1
                  /\ t \in DOMAIN reported
                  /\ reported[t] = "SUCCESS"

\* a run has returned SUCCESS after every task
C16_Witness ==
    /\ pc = "returned"
    /\ result.status = "SUCCESS"
    /\ Len(dispatched) = Cardinality(Tasks)
    /\ Cardinality(Tasks) >= 2

----------------------------------------------------------------------------
(* Termination.  run_dag is a sequential program: it takes its next step   *)
(* whenever it has one, and a runner call that returns is such a step.     *)

\* The runs are those of Spec over fewer task entries and runner outputs: a
\* task without inputs, a task that consumes another task's output, and two
\* tasks that are rejected.
FairTaskSpecs ==
    {TaskSpec("executor_label", "container", TaskInputsSpec(<<>>, <<>>)),
     TaskSpec("executor_label", "importer", TaskInputsSpec(<<>>, <<>>)),
     TaskSpec("dag", None, TaskInputsSpec(<<>>, <<>>))}
    \cup {TaskSpec("executor_label", "container",
                   TaskInputsSpec(<<Input("y", TaskOutputParameter(t, "x"))>>, <<>>)) :
             t \in Tasks}
FairRunnerOutputs == {EmptyDict, [k \in {"x"} |-> PyNumber(MaxVal)]}

NextFair ==
    \/ SeedStore
    \/ SortTasks
    \/ \E spec \in FairTaskSpecs : PopTask(spec)
    \/ Dispatch
    \/ \E outputs \in FairRunnerOutputs : TaskFails(outputs)
    \/ \E outputs \in FairRunnerOutputs : TaskSucceeds(outputs)
    \/ \E task_status \in Statuses, outputs \in FairRunnerOutputs :
           TaskStatusUnknown(task_status, outputs)
    \/ ReturnSuccess

SpecFair == Init /\ [][NextFair]_vars /\ WF_vars(NextFair)

Terminal == {"returned", "raised"}

\* Initializing, Running, and the terminal outcomes
Phase(p) ==
    IF p \in {"start", "seeded"} THEN 0
    ELSE IF p \in Terminal THEN 2
    ELSE 1

\* Running(taskIndex): the number of tasks taken off the stack so far
TaskIndex == Len(topo_order) - Len(sorted_tasks)

\* exactly one terminal outcome, after at most one dispatch per task
C17_OneOutcome ==
    /\ Len(dispatched) <= Cardinality(Tasks)
    /\ pc \notin Terminal => result = NoResult /\ error = NoError
    /\ pc = "returned" =>
           /\ error = NoError
           /\ \/ result = Result("SUCCESS", None)
              \/ result.status = "FAILURE" /\ result.task \in Tasks
    /\ pc = "raised" => result = NoResult /\ error /= NoError

\* the run moves forward only, and nothing is dispatched or written once an
\* outcome is reached
C17_Forward ==
    /\ Phase(pc') >= Phase(pc)
    /\ Phase(pc) = 1 =>
           /\ TaskIndex' \in {TaskIndex, TaskIndex + 1}
           /\ Len(dispatched') \in {Len(dispatched), Len(dispatched) + 1}
    /\ pc \in Terminal =>
           /\ pc' = pc /\ result' = result /\ error' = error
           /\ dispatched' = dispatched
           /\ io_store' = io_store

\* C17: provided every runner call returns, a run always ends in exactly one
\* of (SUCCESS, None), (FAILURE, task) or an exception, after at most one
\* dispatch per task; it only moves forward and does nothing after the end.
C17_Terminates ==
    [][C17_Forward]_vars /\ []C17_OneOutcome /\ <>(pc \in Terminal)

\* all three outcomes are reached, here the exception after a dispatch
C17_Witness ==
    /\ pc = "raised"
    /\ Len(dispatched) = Cardinality(Tasks)
    /\ TaskIndex = Cardinality(Tasks)

----------------------------------------------------------------------------
(* Parent inputs are seeded first.                                         *)

\* the DAG inputs the user supplied or the DAG declares as parameters
KnownDagInputs == DOMAIN dag_arguments \cup DeclaredNames

\* nothing is ordered, resolved or dispatched before the store is seeded, and
\* from then on the store holds every key of the merged arguments
C18_SeededFirst ==
    /\ pc = "start" =>
           /\ topo_order = <<>> /\ sorted_tasks = <<>>
           /\ dispatched = <<>> /\ lookups = <<>>
           /\ io_store = EmptyStore
    /\ pc /= "start" =>
           /\ DOMAIN dag_arguments_with_defaults = KnownDagInputs
           /\ \A k \in KnownDagInputs :
                  get_parent_input(io_store, k) =
                      Found(dag_arguments_with_defaults[k])

\* the inputs of a task that all refer to known DAG inputs
RefersToKnownDagInputs(inputs) ==
    /\ \A i \in DOMAIN inputs.parameters :
           /\ inputs.parameters[i].spec.kind = "component_input_parameter"
           /\ inputs.parameters[i].spec.component_input \in KnownDagInputs
    /\ \A i \in DOMAIN inputs.artifacts :
           /\ inputs.artifacts[i].spec.kind = "component_input_artifact"
           /\ inputs.artifacts[i].spec.component_input \in KnownDagInputs

\* such a task, the first or a later one, gets the merged values
C18_ParentInputsResolve ==
    (pc = "popped" /\ Leaf(task_spec) /\ RefersToKnownDagInputs(task_spec.inputs)) =>
        /\ pc' = "in_flight"
        /\ \A i \in DOMAIN task_spec.inputs.parameters :
               LET e == task_spec.inputs.parameters[i]
               IN  task_arguments'[e.name] =
                       dag_arguments_with_defaults[e.spec.component_input]
        /\ \A i \in DOMAIN task_spec.inputs.artifacts :
               LET e == task_spec.inputs.artifacts[i]
               IN  task_arguments'[e.name] =
                       dag_arguments_with_defaults[e.spec.component_input]

\* C18: run_dag writes every key of the merged arguments into the store as a
\* parent input before it orders, resolves or dispatches anything, so a
\* reference to a user-supplied or declared DAG input resolves for every task.
C18_ParentInputsSeededFirst ==
    [][C18_ParentInputsResolve]_vars /\ []C18_SeededFirst

\* the second task dispatched got a declared default and a user's value
C18_Witness ==
    /\ pc = "in_flight"
    /\ Len(dispatched) = 2
    /\ DOMAIN task_arguments = {"y", "z"}
    /\ "b" \in DeclaredNames \ DOMAIN dag_arguments
    /\ "a" \in DOMAIN dag_arguments
    /\ task_arguments["z"] = dag_arguments_with_defaults["b"]
    /\ task_arguments["y"] = dag_arguments_with_defaults["a"]
    /\ lookups = <<ParentKey("a"), ParentKey("b")>>

----------------------------------------------------------------------------
(* The two error channels, by position.  A task's entry, component and     *)
(* executor are looked at when the task is popped, not before: the tasks   *)
(* still on the stack have not been examined, whatever they are.           *)

\* the tasks popped before the one in hand
PoppedBefore ==
    {topo_order[i] : i \in (Len(sorted_tasks) + 2)..Len(topo_order)}

\* a FAILURE ends the run with (FAILURE, task) and no exception, the tasks
\* ordered after it unexamined; an exception about the task in hand comes
\* after every earlier task was dispatched, succeeded and wrote its outputs
C19_ByPosition ==
    /\ \A t \in DOMAIN reported :
           reported[t] = "FAILURE" =>
               /\ pc = "returned"
               /\ result = Result("FAILURE", t)
               /\ error = NoError
               /\ task_spec = NoTaskSpec
               /\ \A u \in Range(sorted_tasks) :
                      u \notin Range(dispatched) /\ u \notin DOMAIN reported
    /\ (pc = "raised" /\ task_name \notin Range(dispatched)) =>
           /\ Range(dispatched) = PoppedBefore
           /\ \A t \in PoppedBefore : OutputsWritten(t)

\* the exception leaves the entries of the store as they are, and a malformed
\* task is not found out before it is popped
C19_RaisingStep ==
    /\ (pc = "popped" /\ pc' = "raised") =>
           /\ io_store' = io_store
           /\ reported' = reported
           /\ \/ Malformed(task_spec)
              \/ \E i \in DOMAIN EntriesInOrder(task_spec.inputs) :
                     ~Resolves(EntriesInOrder(task_spec.inputs)[i], io_store)
    /\ pc = "loop" => pc' /= "raised"

\* C19: tasks are validated one at a time in dispatch order: a FAILURE of an
\* earlier task wins over a later malformed task, and a malformed task raises
\* only after the earlier tasks ran and wrote their outputs, which remain.
C19_ChannelsByPosition == [][C19_RaisingStep]_vars /\ []C19_ByPosition

\* a malformed task raised after an earlier task had written two outputs
C19_Witness ==
    /\ pc = "raised"
    /\ Malformed(task_spec)
    /\ Len(dispatched) = 1
    /\ \A k \in OutputKeys : TaskKey(dispatched[1], k) \in DOMAIN io_store

----------------------------------------------------------------------------
(* Who writes the store.                                                   *)

\* the entries of the store and the number of puts are as they were
StoreUntouched == io_store' = io_store /\ put_count' = put_count

\* the step of make_task_arguments and the step of get_dag_outputs put
\* nothing, whether they return a dict or raise; a step that puts is the
\* seeding of the parent inputs or the return of a task with SUCCESS, and it
\* puts parent inputs, or outputs of that task, only
C20_StoreStep ==
    /\ pc = "popped" => StoreUntouched
    /\ GetDagOutputsCalled => StoreUntouched
    /\ ~StoreUntouched =>
           \/ /\ pc = "start"
              /\ \A k \in DOMAIN io_store' \ DOMAIN io_store :
                     k.space = "parent_input"
           \/ /\ pc = "in_flight"
              /\ reported'[task_name] = "SUCCESS"
              /\ \A k \in DOMAIN io_store' \ DOMAIN io_store :
                     k.space = "task_output" /\ k.task = task_name

\* C20: make_task_arguments and get_dag_outputs (with its two halves) only
\* read the store; the puts of a run are the parent inputs run_dag seeds and
\* the outputs of a task that reported SUCCESS.
C20_ReadOnlyResolutionAndExtraction == [][C20_StoreStep]_vars

\* after a run in which a task read the store for its arguments,
\* get_dag_outputs has read both declared outputs
C20_Witness ==
    /\ dag_outputs.called /\ ~dag_outputs.raised
    /\ DOMAIN dag_outputs.outputs = {"out", "art"}
    /\ \E k \in DOMAIN io_store : k.space = "parent_input"

====
